---- MODULE Spec2Model ----
(***************************************************************************)
(* Model of the WhatsApp sender: the HTTP handlers of server.js that own   *)
(* batch jobs and the monitor handle, and the automation engine            *)
(* (waSender): sendBatch, sendSingle, trySendClick, startMonitor with its  *)
(* CSV and watch loops, stop() and getScreenshot.                          *)
(*                                                                         *)
(* JavaScript runs every handler to completion between two awaits, so one  *)
(* action of the model is the code from the resumption of one await up to  *)
(* the next await.  The value of pc names the await a task is suspended    *)
(* at.  The outcome of a driver call is drawn when the await resumes.      *)
(***************************************************************************)
EXTENDS Integers, Sequences, FiniteSets, TLC

\* ---- bounds of the model -------------------------------------------------
MaxRows == 2        \* longest recipient list of a request
MaxTicks == 5       \* clock ticks of TICK_MS a behaviour may take
MaxSpans == 2       \* most span[data-icon="send"] elements on a page

\* ---- program constants ---------------------------------------------------
ATTEMPTS == 5
DEBOUNCE_MS == 1500
TICK_MS == 500
EVENTS_CAP == 200

VARIABLES
    bat,            \* one record per /api/send request: the job and its sendBatch run
    mon,            \* one record per startMonitor call
    monitorHandle,  \* server.js: the handle of "the current monitor", 0 is null
    lastPage,       \* waSender: the page getScreenshot uses, 0 is null
    now,            \* Date.now()
    shot,           \* the getScreenshot call in flight and its last result
    stopping,       \* monitors whose /api/monitor/stop handler awaits context.close()
    probe           \* one call of trySendClick on a page, taken by itself

vars == <<bat, mon, monitorHandle, lastPage, now, shot, stopping, probe>>

Batches == 1..2
Mons == 1..2

\* ---- the page as trySendClick sees it -------------------------------------
Vis == {"none", "hidden", "visible"}

\* direct:  what the four direct send selectors find: "visible" if the first
\*          match of one of them is visible, "hidden" if they match hidden
\*          elements only, "none" if they match nothing
\* spans:   for each span[data-icon="send"] in document order, its closest button
\* label:   a visible button whose aria-label contains "send"
\* pw:      what the driver's locators find after the in-page script found nothing
\* busy:    page.evaluate rejects (the page is navigating)
SpanLists == UNION {[1..k -> Vis] : k \in 0..MaxSpans}

Doms == [direct : Vis, spans : SpanLists, label : BOOLEAN,
         pw : {"none", "clickable", "throws"}, busy : BOOLEAN]

\* for (const span of spans): is there a span whose closest button is visible
IconButton(spans) == \E k \in 1..Len(spans) : spans[k] = "visible"

\* mutant of JsLadder: the in-page script without its loop over the send-icon spans
JsLadderNoSpans(dom) ==
    IF dom.direct = "visible" THEN 1
    ELSE IF dom.label THEN 3
    ELSE 0

\* The in-page script of trySendClick: the number of the strategy that clicked, 0 if none.
JsLadder(dom) ==
    IF dom.direct = "visible" THEN 1
    ELSE IF IconButton(dom.spans) THEN 2
    ELSE IF dom.label THEN 3
    ELSE 0

TrySendClick(dom) ==
    IF dom.busy THEN [threw |-> TRUE, ret |-> FALSE, clicks |-> 0]
    ELSE IF JsLadder(dom) > 0 THEN [threw |-> FALSE, ret |-> TRUE, clicks |-> 1]
    ELSE IF dom.pw = "clickable" THEN [threw |-> FALSE, ret |-> TRUE, clicks |-> 1]
    ELSE [threw |-> FALSE, ret |-> FALSE, clicks |-> 0]

\* what a pass of trySendClick can return; on a context that was already closed
\* when the pass was issued, page.evaluate can only reject
ClickOutcomes == {TrySendClick(dom) : dom \in Doms}
RejectedOutcomes == {TrySendClick(dom) : dom \in {d \in Doms : d.busy}}
ClickResults(dead) == IF dead THEN RejectedOutcomes ELSE ClickOutcomes

\* ---- /api/send and sendBatch ---------------------------------------------
IdleBatch ==
    [pc |-> "idle", n |-> 0, i |-> 0, attempt |-> 0, ctx |-> "none",
     ready |-> FALSE, err |-> FALSE, prog |-> <<>>, clicks |-> 0, enters |-> 0,
     status |-> "none", done |-> 0, ok |-> 0, failed |-> 0, nevents |-> 0,
     e |-> "none"]

\* an await rejects: e is the error until a catch block takes it
Thrown(r, msg) == [r EXCEPT !.e = msg]

\* job.events.push(...); if (job.events.length > 200) job.events.shift()
JobPush(k) == IF k + 1 > EVENTS_CAP THEN k ELSE k + 1

\* onProgress of /api/send: the job's counters and its capped history
OnProgress(r, ok) ==
    [r EXCEPT !.prog = Append(@, [index |-> r.i, ok |-> ok,
                                   error |-> IF ok THEN "none" ELSE r.e]),
              !.e = "none",
              !.done = @ + 1,
              !.ok = IF ok THEN @ + 1 ELSE @,
              !.failed = IF ok THEN @ ELSE @ + 1,
              !.nevents = JobPush(@)]

\* sendSingle returned: report ok and sleep delayMs
BatchSent(r) == [OnProgress(r, TRUE) EXCEPT !.pc = "delay"]

\* an error that leaves the try block of sendBatch: on to the finally block
BatchFailedAbort(r) == [r EXCEPT !.err = TRUE, !.pc = "close"]

\* mutant of BatchFailed: the loop has no catch, a failed recipient ends the batch
BatchFailedRethrow(r) == [r EXCEPT !.err = TRUE, !.pc = "close"]

\* mutant of BatchFailed: the catch block reports the recipient as sent
BatchFailedReportsOk(r) == [OnProgress(r, TRUE) EXCEPT !.pc = "delay"]

\* sendSingle threw: the catch of the loop reports the failure and sleeps delayMs
BatchFailed(r) == [OnProgress(r, FALSE) EXCEPT !.pc = "delay"]

\* sendSingle(page, rows[i]) up to its first await, page.goto
BatchStartSingle(r, i) ==
    [r EXCEPT !.i = i, !.attempt = 0, !.clicks = 0, !.enters = 0, !.pc = "goto"]

\* the for loop of sendBatch at index i: next recipient, or the finally block
BatchLoop(r, i) ==
    IF i < r.n THEN BatchStartSingle(r, i) ELSE [r EXCEPT !.i = i, !.pc = "close"]

\* the await of sendBatch settled in /api/send; the catch block pushes one
\* more event and does not trim the history
JobSettled(r) ==
    IF r.err
    THEN [r EXCEPT !.status = "error", !.nevents = @ + 1, !.pc = "done"]
    ELSE [r EXCEPT !.status = "finished", !.pc = "done"]

SetBat(b, r) ==
    /\ bat' = [bat EXCEPT ![b] = r]
    /\ UNCHANGED <<mon, monitorHandle, lastPage, now, shot, stopping, probe>>

\* POST /api/send: create the job, answer, call sendBatch up to getContext
ApiSend(b, n) ==
    /\ bat[b].pc = "idle"
    /\ SetBat(b, [IdleBatch EXCEPT !.pc = "launch", !.n = n, !.status = "running"])

\* getContext(BATCH_SESSION_DIR) settled; a rejection leaves no session behind
BatchLaunched(b) ==
    /\ bat[b].pc = "launch"
    /\ \E ok \in BOOLEAN :
        SetBat(b, IF ok THEN [bat[b] EXCEPT !.ctx = "open", !.pc = "newPage"]
                  ELSE JobSettled([bat[b] EXCEPT !.err = TRUE]))

\* context.newPage() settled: it is awaited before the try block
BatchNewPage(b) ==
    /\ bat[b].pc = "newPage"
    /\ \E ok \in BOOLEAN :
        SetBat(b, IF ok THEN [bat[b] EXCEPT !.pc = "rgoto"]
                  ELSE JobSettled([bat[b] EXCEPT !.err = TRUE]))

\* waitForReady: page.goto(root) settled
BatchReadyGoto(b) ==
    /\ bat[b].pc = "rgoto"
    /\ \E ok \in BOOLEAN :
        SetBat(b, IF ok THEN [bat[b] EXCEPT !.pc = "rwait"]
                  ELSE BatchFailedAbort(bat[b]))

\* waitForReady: the unbounded wait for the chat list settled
BatchReadyWait(b) ==
    /\ bat[b].pc = "rwait"
    /\ \E ok \in BOOLEAN :
        SetBat(b, IF ok THEN [bat[b] EXCEPT !.pc = "reval"]
                  ELSE BatchFailedAbort(bat[b]))

\* waitForReady: page.evaluate(zoom) settled; then the loop starts
BatchReadyEval(b) ==
    /\ bat[b].pc = "reval"
    /\ \E ok \in BOOLEAN :
        SetBat(b, IF ok THEN BatchLoop([bat[b] EXCEPT !.ready = TRUE], 0)
                  ELSE BatchFailedAbort(bat[b]))

\* sendSingle: page.goto(url) settled
BatchGoto(b) ==
    /\ bat[b].pc = "goto"
    /\ \E ok \in BOOLEAN :
        SetBat(b, IF ok THEN [bat[b] EXCEPT !.pc = "wait"]
                  ELSE BatchFailed(Thrown(bat[b], "goto")))

\* sendSingle: waitForSelector(composer, 60s) settled
BatchWait(b) ==
    /\ bat[b].pc = "wait"
    /\ \E ok \in BOOLEAN :
        SetBat(b, IF ok THEN [bat[b] EXCEPT !.pc = "settle"]
                  ELSE BatchFailed(Thrown(bat[b], "wait")))

\* sendSingle: sleep(2000) over; first pass of the click ladder is issued
BatchSettle(b) ==
    /\ bat[b].pc = "settle"
    /\ SetBat(b, [bat[b] EXCEPT !.pc = "click"])

\* mutant of SingleExhausted: an exhausted ladder is an error of the recipient
SingleExhaustedThrows(r) == BatchFailed(Thrown(r, "exhausted"))

\* sendSingle after the ladder was exhausted: press Enter
SingleExhausted(r) == [r EXCEPT !.enters = @ + 1, !.pc = "press"]

\* mutant of SingleAfterPass: a successful pass does not return from the ladder
SingleAfterPassNoReturn(r, res) ==
    IF res.threw THEN BatchFailed(Thrown(r, "evaluate"))
    ELSE [r EXCEPT !.clicks = @ + res.clicks, !.pc = "gap"]

\* sendSingle: what follows a pass of trySendClick
SingleAfterPass(r, res) ==
    IF res.threw THEN BatchFailed(Thrown(r, "evaluate"))
    ELSE IF res.ret THEN BatchSent([r EXCEPT !.clicks = @ + res.clicks])
    ELSE [r EXCEPT !.pc = "gap"]

\* sendSingle: trySendClick settled
BatchClick(b) ==
    /\ bat[b].pc = "click"
    /\ \E res \in ClickResults(FALSE) : SetBat(b, SingleAfterPass(bat[b], res))

\* sendSingle: sleep(1000) over; attempt++ and the loop test
SingleAfterGap(r) ==
    IF r.attempt + 1 < ATTEMPTS
    THEN [r EXCEPT !.attempt = @ + 1, !.pc = "click"]
    ELSE SingleExhausted([r EXCEPT !.attempt = @ + 1])

BatchGap(b) ==
    /\ bat[b].pc = "gap"
    /\ SetBat(b, SingleAfterGap(bat[b]))

\* sendSingle: keyboard.press('Enter') settled, sleep(1200) begins
BatchPress(b) ==
    /\ bat[b].pc = "press"
    /\ SetBat(b, [bat[b] EXCEPT !.pc = "postpress"])

\* sendSingle: sleep(1200) over, sendSingle returns
BatchPostPress(b) ==
    /\ bat[b].pc = "postpress"
    /\ SetBat(b, BatchSent(bat[b]))

\* sendBatch: sleep(delayMs) over, i++
BatchDelay(b) ==
    /\ bat[b].pc = "delay"
    /\ SetBat(b, BatchLoop(bat[b], bat[b].i + 1))

\* sendBatch: finally { await context.close() } settled; close() rejects when
\* the browser is gone, and the rejection leaves sendBatch as its error
BatchClose(b) ==
    /\ bat[b].pc = "close"
    /\ \E ok \in BOOLEAN :
        SetBat(b, JobSettled([bat[b] EXCEPT !.ctx = "closed", !.err = @ \/ ~ok]))

\* ---- startMonitor, its loops and stop() -----------------------------------
NoCurrent == [tag |-> "null", k |-> 0]

IdleMon ==
    [pc |-> "idle", n |-> 0, i |-> 0, attempt |-> 0, sent |-> FALSE, enters |-> 0,
     stopped |-> FALSE, running |-> FALSE, clicks |-> 0, lastClick |-> 0,
     current |-> NoCurrent, lastClickedAt |-> 0, wake |-> 0,
     ctx |-> "none", dead |-> FALSE, ev |-> <<>>, e |-> "none", stop |-> "none",
     closeErr |-> FALSE, atStop |-> 0]

SetupPcs == {"launch", "newPage", "rgoto", "rwait", "reval"}
CsvPcs == {"goto", "wait", "settle", "click", "gap", "press", "delay"}
WatchPcs == {"wclick", "wsleep"}

\* a driver call is issued: it is bound to fail when the context is already closed
Issue(r, pc) == [r EXCEPT !.pc = pc, !.dead = (r.ctx = "closed")]

\* may the driver call that is now settling have succeeded / have rejected
CanSucceed(r) == ~r.dead
MustSucceed(r) == ~r.dead /\ r.ctx = "open"

\* mutant of StopReturn: stop() awaits context.close() outside any try block
StopReturnNoCatch(ok) == IF ok THEN "returned" ELSE "raised"

\* how stop() ends once context.close() settled: the catch swallows a rejection
StopReturn(ok) == "returned"

\* the body of stop() up to its await: the flag, stats.running, context.close();
\* on a context that is already closed, close() settles at once.  atStop is a
\* history field: stats.clicks as it was when stop() was first invoked
StopCalled(r) ==
    [r EXCEPT !.stopped = TRUE, !.running = FALSE,
              !.ctx = IF @ = "open" THEN "closing" ELSE @,
              !.stop = IF r.ctx \in {"open", "closing"} THEN "pending"
                       ELSE StopReturn(TRUE),
              !.atStop = IF r.stopped THEN @ ELSE r.clicks]

\* mutant of CsvExit: the completion block runs whatever the stop flag says
CsvExitUnchecked(r) ==
    [r EXCEPT !.running = FALSE,
              !.current = [tag |-> "done", k |-> 0],
              !.ev = Append(@, [done |-> TRUE, index |-> r.n, ok |-> TRUE,
                                 clicks |-> r.clicks, error |-> "none"]),
              !.ctx = IF @ = "open" THEN "closing" ELSE @,
              !.pc = IF r.ctx = "closed" THEN "ended" ELSE "closing"]

\* the code after the CSV loop: natural completion unless a stop was requested
CsvExit(r) ==
    IF ~r.stopped
    THEN [r EXCEPT !.running = FALSE,
                   !.current = [tag |-> "done", k |-> 0],
                   !.ev = Append(@, [done |-> TRUE, index |-> r.n, ok |-> TRUE,
                                      clicks |-> r.clicks, error |-> "none"]),
                   !.ctx = IF @ = "open" THEN "closing" ELSE @,
                   !.pc = "closing"]
    ELSE [r EXCEPT !.pc = "ended"]

\* mutant of CsvIter: the loop test without the stop flag
CsvIterUnchecked(r, i) ==
    IF i < r.n
    THEN Issue([r EXCEPT !.i = i, !.current = [tag |-> "row", k |-> i + 1],
                         !.attempt = 0, !.sent = FALSE, !.enters = 0], "goto")
    ELSE CsvExit([r EXCEPT !.i = i])

\* the for loop of CSV mode at index i: its test, stats.current, page.goto
CsvIter(r, i) ==
    IF i < r.n /\ ~r.stopped
    THEN Issue([r EXCEPT !.i = i, !.current = [tag |-> "row", k |-> i + 1],
                         !.attempt = 0, !.sent = FALSE, !.enters = 0], "goto")
    ELSE CsvExit([r EXCEPT !.i = i])

\* mutant of CsvTrailing: the trailing sleep is taken whatever the stop flag says
CsvTrailingAlways(r) == [r EXCEPT !.pc = "delay"]

\* after onEvent: if (!stopped) await sleep(delayMs), else on to the loop test
CsvTrailing(r) ==
    IF ~r.stopped THEN [r EXCEPT !.pc = "delay"] ELSE CsvIter(r, r.i + 1)

\* the end of the try block: count the click and report it
CsvSucceed(r) ==
    [r EXCEPT !.clicks = @ + 1, !.lastClick = now,
              !.ev = Append(@, [done |-> FALSE, index |-> r.i, ok |-> TRUE,
                                 clicks |-> r.clicks + 1, error |-> "none"])]

\* the catch block: report the failure with the error's message
CsvFail(r) ==
    [r EXCEPT !.ev = Append(@, [done |-> FALSE, index |-> r.i, ok |-> FALSE,
                                 clicks |-> r.clicks, error |-> r.e]),
              !.e = "none"]

\* onEvent is the caller's code: it may call the handle's stop()
OnEvent(r, cbStop) == IF cbStop THEN StopCalled(r) ELSE r

CsvReportOk(r, cbStop) == CsvTrailing(OnEvent(CsvSucceed(r), cbStop))

\* mutant of CsvReportFail: the loop body has no catch, an error ends the loop
CsvReportFailAbort(r, cbStop) == [r EXCEPT !.pc = "ended"]

CsvReportFail(r, cbStop) == CsvTrailing(OnEvent(CsvFail(r), cbStop))

\* mutant of WatchDebounced: a click exactly 1.5s after the last one is let through
WatchDebouncedAtLeast(r) == now - r.lastClickedAt >= DEBOUNCE_MS

\* the debounce test of the watch loop
WatchDebounced(r) == now - r.lastClickedAt > DEBOUNCE_MS

\* the top of the watch loop: the stop flag, the debounce test, then a pass or a sleep
WatchIter(r) ==
    IF r.stopped THEN [r EXCEPT !.pc = "ended"]
    ELSE IF WatchDebounced(r) THEN Issue(r, "wclick")
    ELSE [r EXCEPT !.pc = "wsleep", !.wake = now + TICK_MS]

\* mutant of StartLoop: the loop is awaited, startMonitor returns when it is over
StartLoopAwaited(r) ==
    IF r.n > 0 THEN CsvExit([r EXCEPT !.i = r.n])
    ELSE [r EXCEPT !.current = [tag |-> "watching", k |-> 0], !.pc = "ended"]

\* the loop that startMonitor detaches once the page is ready
StartLoop(r) ==
    IF r.n > 0 THEN CsvIter(r, 0)
    ELSE WatchIter([r EXCEPT !.current = [tag |-> "watching", k |-> 0],
                             !.lastClickedAt = 0])

SetMon(m, r) ==
    /\ mon' = [mon EXCEPT ![m] = r]
    /\ UNCHANGED <<bat, monitorHandle, lastPage, now, shot, stopping, probe>>

\* POST /api/monitor/start up to its first await (n = 0: no rows, watch mode)
MonitorActive == monitorHandle # 0 /\ mon[monitorHandle].running

ApiMonitorStart(m, n) ==
    /\ mon[m].pc = "idle"
    /\ SetMon(m, IF MonitorActive THEN [IdleMon EXCEPT !.pc = "already"]
                 ELSE [IdleMon EXCEPT !.pc = "launch", !.n = n])

\* startMonitor threw: the handler answers 500, nothing else is done
SetupFailed(r) == [r EXCEPT !.pc = "failed"]

\* getContext(MONITOR_SESSION_DIR) settled
MonLaunched(m) ==
    /\ mon[m].pc = "launch"
    /\ \E ok \in BOOLEAN :
        SetMon(m, IF ok THEN [mon[m] EXCEPT !.ctx = "open", !.pc = "newPage"]
                  ELSE SetupFailed(mon[m]))

\* context.newPage() settled; lastPage, stats and the stop flag are set up
MonNewPage(m) ==
    /\ mon[m].pc = "newPage"
    /\ \E ok \in BOOLEAN :
        IF ok
        THEN /\ mon' = [mon EXCEPT ![m] = [@ EXCEPT !.running = TRUE, !.pc = "rgoto"]]
             /\ lastPage' = m
             /\ UNCHANGED <<bat, monitorHandle, now, shot, stopping, probe>>
        ELSE SetMon(m, SetupFailed(mon[m]))

MonReadyGoto(m) ==
    /\ mon[m].pc = "rgoto"
    /\ \E ok \in BOOLEAN :
        SetMon(m, IF ok THEN [mon[m] EXCEPT !.pc = "rwait"] ELSE SetupFailed(mon[m]))

MonReadyWait(m) ==
    /\ mon[m].pc = "rwait"
    /\ \E ok \in BOOLEAN :
        SetMon(m, IF ok THEN [mon[m] EXCEPT !.pc = "reval"] ELSE SetupFailed(mon[m]))

\* waitForReady done: the loop is detached, startMonitor returns the handle and
\* the handler stores it in monitorHandle
MonReadyEval(m) ==
    /\ mon[m].pc = "reval"
    /\ \E ok \in BOOLEAN :
        IF ok
        THEN /\ mon' = [mon EXCEPT ![m] = StartLoop(@)]
             /\ monitorHandle' = m
             /\ UNCHANGED <<bat, lastPage, now, shot, stopping, probe>>
        ELSE SetMon(m, SetupFailed(mon[m]))

\* CSV mode: page.goto(url) settled
MonGoto(m, cbStop) ==
    /\ mon[m].pc = "goto"
    /\ \/ CanSucceed(mon[m]) /\ SetMon(m, Issue(mon[m], "wait"))
       \/ SetMon(m, CsvReportFail(Thrown(mon[m], "goto"), cbStop))

\* CSV mode: waitForSelector(composer, 60s) settled
MonWait(m, cbStop) ==
    /\ mon[m].pc = "wait"
    /\ \/ CanSucceed(mon[m]) /\ SetMon(m, [mon[m] EXCEPT !.pc = "settle"])
       \/ SetMon(m, CsvReportFail(Thrown(mon[m], "wait"), cbStop))

\* CSV mode: sleep(2500) over, the first pass of the ladder is issued
MonSettle(m) ==
    /\ mon[m].pc = "settle"
    /\ SetMon(m, Issue(mon[m], "click"))

\* CSV mode: what follows a pass of trySendClick
CsvAfterPass(r, res, cbStop) ==
    IF res.threw THEN CsvReportFail(Thrown(r, "evaluate"), cbStop)
    ELSE IF res.ret
         THEN CsvReportOk([r EXCEPT !.sent = TRUE, !.attempt = @ + 1], cbStop)
         ELSE [r EXCEPT !.pc = "gap"]

MonClick(m, cbStop) ==
    /\ mon[m].pc = "click"
    /\ \E res \in ClickResults(mon[m].dead) : SetMon(m, CsvAfterPass(mon[m], res, cbStop))

\* CSV mode: sleep(1000) over; attempt++, the loop test, then a pass or Enter
CsvAfterGap(r) ==
    IF r.attempt + 1 < ATTEMPTS
    THEN Issue([r EXCEPT !.attempt = @ + 1], "click")
    ELSE Issue([r EXCEPT !.attempt = @ + 1, !.enters = @ + 1], "press")

MonGap(m) ==
    /\ mon[m].pc = "gap"
    /\ SetMon(m, CsvAfterGap(mon[m]))

\* CSV mode: keyboard.press('Enter') settled
MonPress(m, cbStop) ==
    /\ mon[m].pc = "press"
    /\ \/ CanSucceed(mon[m]) /\ SetMon(m, CsvReportOk(mon[m], cbStop))
       \/ ~MustSucceed(mon[m]) /\ SetMon(m, CsvReportFail(Thrown(mon[m], "press"), cbStop))

\* CSV mode: sleep(delayMs) over, i++
MonDelay(m) ==
    /\ mon[m].pc = "delay"
    /\ SetMon(m, CsvIter(mon[m], mon[m].i + 1))

\* watch mode: a recorded click
WatchClicked(r) ==
    [r EXCEPT !.clicks = @ + 1, !.lastClick = now, !.lastClickedAt = now,
              !.ev = Append(@, [done |-> FALSE, index |-> 0, ok |-> TRUE,
                                 clicks |-> r.clicks + 1, error |-> "none"])]

\* mutant of WatchAfterPass: no try block in the loop, an error of a pass ends it
WatchAfterPassNoCatch(r, res) ==
    IF res.threw THEN [r EXCEPT !.pc = "ended", !.e = "evaluate"]
    ELSE [(IF res.ret THEN WatchClicked(r) ELSE r)
             EXCEPT !.pc = "wsleep", !.wake = now + TICK_MS, !.e = "none"]

\* watch mode: trySendClick settled (the catch block takes an error and drops
\* it), then sleep(500)
WatchAfterPass(r, res) ==
    [(IF ~res.threw /\ res.ret THEN WatchClicked(r) ELSE r)
        EXCEPT !.pc = "wsleep", !.wake = now + TICK_MS,
               !.e = IF res.threw THEN "evaluate" ELSE "none"]

MonWatchClick(m) ==
    /\ mon[m].pc = "wclick"
    /\ \E res \in ClickResults(mon[m].dead) : SetMon(m, WatchAfterPass(mon[m], res))

\* watch mode: sleep(500) over
MonWatchSleep(m) ==
    /\ mon[m].pc = "wsleep"
    /\ now >= mon[m].wake
    /\ SetMon(m, WatchIter(mon[m]))

\* POST /api/monitor/stop: the stop() of the current handle, up to the await of
\* context.close(); on a context that is already closed the await settles at once
ApiMonitorStop ==
    /\ monitorHandle # 0      \* on null the handler answers 'not running' and changes nothing
    /\ LET m == monitorHandle
           r == StopCalled(mon[m])
       IN /\ mon' = [mon EXCEPT ![m] = r]
          /\ IF r.ctx = "closing"
             THEN stopping' = stopping \cup {m} /\ UNCHANGED monitorHandle
             ELSE monitorHandle' = 0 /\ UNCHANGED stopping
    /\ UNCHANGED <<bat, lastPage, now, shot, probe>>

\* context.close() settled (it rejects when the browser is gone, and the
\* session is gone either way): the loop's own close resumes (natural
\* completion), and so do a pending stop() and the stop handler, which then
\* clears monitorHandle
CloseSettled(m) ==
    /\ mon[m].ctx = "closing"
    /\ \E ok \in BOOLEAN :
        mon' = [mon EXCEPT ![m] = [@ EXCEPT !.ctx = "closed",
                                    !.pc = IF @ = "closing" THEN "ended" ELSE @,
                                    !.stop = IF @ = "pending" THEN StopReturn(ok) ELSE @,
                                    !.closeErr = ~ok]]
    /\ stopping' = stopping \ {m}
    /\ monitorHandle' = IF m \in stopping THEN 0 ELSE monitorHandle
    /\ UNCHANGED <<bat, lastPage, now, shot, probe>>

\* ---- getScreenshot ---------------------------------------------------------
\* if (!lastPage || lastPage.isClosed()) return null
NoPage(p) == p = 0 \/ mon[p].ctx = "closed"

\* mutant of ShotResult: no catch around the screenshot call
ShotResultNoCatch(ok) == IF ok THEN "bytes" ELSE "raised"

\* what the try/catch around lastPage.screenshot() returns
ShotResult(ok) == IF ok THEN "bytes" ELSE "null"

GetScreenshot ==
    /\ shot.pc = "idle"
    /\ shot' = IF NoPage(lastPage) THEN [pc |-> "idle", page |-> 0, res |-> "null"]
               ELSE [pc |-> "shooting", page |-> lastPage, res |-> "none"]
    /\ UNCHANGED <<bat, mon, monitorHandle, lastPage, now, stopping, probe>>

\* lastPage.screenshot() settled: it rejects on a closed page, and may fail otherwise
ScreenshotSettled ==
    /\ shot.pc = "shooting"
    /\ \E ok \in BOOLEAN :
        /\ ok => mon[shot.page].ctx # "closed"
        /\ shot' = [pc |-> "idle", page |-> shot.page, res |-> ShotResult(ok)]
    /\ UNCHANGED <<bat, mon, monitorHandle, lastPage, now, stopping, probe>>

\* ---- the clock ---------------------------------------------------------------
Epoch == DEBOUNCE_MS + TICK_MS

\* time passes while a watch loop runs; past the bound of the model it passes
\* only for a stopped loop that has a sleep to finish
Tick ==
    /\ \/ /\ \E m \in Mons : mon[m].pc \in WatchPcs
          /\ now < Epoch + MaxTicks * TICK_MS
       \/ \E m \in Mons : mon[m].pc = "wsleep" /\ mon[m].stopped /\ now < mon[m].wake
    /\ now' = now + TICK_MS
    /\ UNCHANGED <<bat, mon, monitorHandle, lastPage, shot, stopping, probe>>

\* ---- one pass of trySendClick on a given page --------------------------------
NoClick == [threw |-> FALSE, ret |-> FALSE, clicks |-> 0]
NoProbe == [pc |-> "idle", dom |-> [direct |-> "none", spans |-> <<>>, label |-> FALSE,
                                     pw |-> "none", busy |-> FALSE], res |-> NoClick]

TrySendClickCall ==
    /\ probe.pc = "called"
    /\ probe' = [probe EXCEPT !.pc = "returned", !.res = TrySendClick(probe.dom)]
    /\ UNCHANGED <<bat, mon, monitorHandle, lastPage, now, shot, stopping>>

\* the server after start-up: no job, no monitor
InitServer ==
    /\ bat = [b \in Batches |-> IdleBatch]
    /\ mon = [m \in Mons |-> IdleMon]
    /\ monitorHandle = 0
    /\ lastPage = 0
    /\ now = Epoch
    /\ shot = [pc |-> "idle", page |-> 0, res |-> "none"]
    /\ stopping = {}

Init == InitServer /\ probe = NoProbe

\* trySendClick is called on any page
InitClick == InitServer /\ probe \in {[NoProbe EXCEPT !.pc = "called", !.dom = d] : d \in Doms}

NextClick == TrySendClickCall

SpecClick == InitClick /\ [][NextClick]_vars

BatchSetupStep(b) ==
    \/ BatchLaunched(b)
    \/ BatchNewPage(b)
    \/ BatchReadyGoto(b)
    \/ BatchReadyWait(b)
    \/ BatchReadyEval(b)

BatchLoopStep(b) ==
    \/ BatchGoto(b)
    \/ BatchWait(b)
    \/ BatchSettle(b)
    \/ BatchClick(b)
    \/ BatchGap(b)
    \/ BatchPress(b)
    \/ BatchPostPress(b)
    \/ BatchDelay(b)
    \/ BatchClose(b)

BatchStep(b) == BatchSetupStep(b) \/ BatchLoopStep(b)

\* a long job late in its run: all recipients but the last one or two were sent,
\* the job has counted them and its history holds one event for each
LateJob(n) ==
    [IdleBatch EXCEPT !.pc = "delay", !.n = n, !.i = EVENTS_CAP - 2, !.clicks = 1,
                      !.ctx = "open", !.ready = TRUE, !.status = "running",
                      !.prog = [k \in 1..(EVENTS_CAP - 1) |->
                                   [index |-> k - 1, ok |-> TRUE, error |-> "none"]],
                      !.done = EVENTS_CAP - 1, !.ok = EVENTS_CAP - 1,
                      !.nevents = EVENTS_CAP - 1]

InitLate ==
    /\ bat \in {[[b \in Batches |-> IdleBatch] EXCEPT ![1] = LateJob(n)] :
                    n \in EVENTS_CAP..(EVENTS_CAP + 1)}
    /\ mon = [m \in Mons |-> IdleMon]
    /\ monitorHandle = 0
    /\ lastPage = 0
    /\ now = Epoch
    /\ shot = [pc |-> "idle", page |-> 0, res |-> "none"]
    /\ stopping = {}
    /\ probe = NoProbe

\* the end of a job of 200 or 201 recipients
NextLate == BatchLoopStep(1)

SpecLate == InitLate /\ [][NextLate]_vars
\* one /api/send request with any recipient list
NextBatch ==
    \/ \E n \in 0..MaxRows : ApiSend(1, n)
    \/ BatchStep(1)

SpecBatch == Init /\ [][NextBatch]_vars

MonSetupStep(m) ==
    \/ MonLaunched(m)
    \/ MonNewPage(m)
    \/ MonReadyGoto(m)
    \/ MonReadyWait(m)
    \/ MonReadyEval(m)

MonCsvStep(m, cbs) ==
    \/ \E cb \in cbs : MonGoto(m, cb)
    \/ \E cb \in cbs : MonWait(m, cb)
    \/ MonSettle(m)
    \/ \E cb \in cbs : MonClick(m, cb)
    \/ MonGap(m)
    \/ \E cb \in cbs : MonPress(m, cb)
    \/ MonDelay(m)

MonWatchStep(m) ==
    \/ MonWatchClick(m)
    \/ MonWatchSleep(m)

\* one monitor run of either sub-mode, driven by a caller that may stop it at any
\* await and from within onEvent, with screenshots taken at any time
NextMon ==
    \/ \E n \in 0..MaxRows : ApiMonitorStart(1, n)
    \/ MonSetupStep(1)
    \/ MonCsvStep(1, BOOLEAN)
    \/ MonWatchStep(1)
    \/ CloseSettled(1)
    \/ ApiMonitorStop
    \/ GetScreenshot
    \/ ScreenshotSettled
    \/ Tick

SpecMon == Init /\ [][NextMon]_vars

\* the same run on an event loop that resumes every settled await: driver calls
\* settle (the waits of the loops are bounded, calls on a closed session
\* reject), sleeps end, and context.close() settles
SpecMonLive ==
    /\ SpecMon
    /\ WF_vars(MonCsvStep(1, BOOLEAN))
    /\ WF_vars(MonWatchStep(1))
    /\ WF_vars(CloseSettled(1))
    /\ WF_vars(Tick)

\* a batch job next to a CSV monitor run that nobody stops
NextRuns ==
    \/ \E n \in 0..MaxRows : ApiSend(1, n)
    \/ BatchStep(1)
    \/ \E n \in 1..2 : ApiMonitorStart(1, n)
    \/ MonSetupStep(1)
    \/ MonCsvStep(1, {FALSE})
    \/ CloseSettled(1)

SpecRuns == Init /\ [][NextRuns]_vars

\* the server under concurrent /api/monitor/start and /api/monitor/stop requests
\* for one-recipient CSV runs, with the server's own onEvent (it only logs)
NextSrv ==
    \/ \E m \in Mons : ApiMonitorStart(m, 1)
    \/ \E m \in Mons : MonSetupStep(m)
    \/ \E m \in Mons : MonCsvStep(m, {FALSE})
    \/ \E m \in Mons : CloseSettled(m)
    \/ ApiMonitorStop

SpecSrv == Init /\ [][NextSrv]_vars

\* the server under concurrent /api/send requests next to a monitor run
NextDirs ==
    \/ \E b \in Batches : \E n \in 0..1 : ApiSend(b, n)
    \/ \E b \in Batches : BatchStep(b)
    \/ ApiMonitorStart(1, 1)
    \/ MonSetupStep(1)
    \/ MonCsvStep(1, {FALSE})
    \/ CloseSettled(1)
    \/ ApiMonitorStop

SpecDirs == Init /\ [][NextDirs]_vars

\* ---- the claims -----------------------------------------------------------------
RecipientPcs == {"goto", "wait", "settle", "click", "gap", "press", "postpress"}

\* C1: once the session is ready, sendBatch calls onProgress exactly once per
\* recipient, with the indices 0..n-1 in input order, whichever sendSingle calls
\* fail: the reports so far are always 0..k-1, the recipient in hand is the next
\* one to report, and the loop ends with all n reported.
C1_OneProgressPerRecipient ==
    \A b \in Batches :
        LET r == bat[b] IN
        /\ \A k \in 1..Len(r.prog) : r.prog[k].index = k - 1
        /\ Len(r.prog) <= r.n
        /\ r.pc \in RecipientPcs => Len(r.prog) = r.i
        /\ r.pc = "delay" => Len(r.prog) = r.i + 1
        /\ (r.ready /\ r.pc \in {"close", "done"}) => Len(r.prog) = r.n

\* a finished batch of at least two recipients, with a failure followed by a success
C1_Witness ==
    \E b \in Batches :
        LET r == bat[b] IN
        /\ r.pc = "done" /\ r.ready /\ r.n >= 2 /\ Len(r.prog) = r.n
        /\ ~r.prog[1].ok /\ r.prog[2].ok

C7_SessionClosedOnEveryPath ==
    \A b \in Batches : bat[b].pc = "done" => bat[b].ctx # "open"

\* a monitor that a start request launched and that was not stopped or completed
MonActive(m) == mon[m].pc \in SetupPcs \cup CsvPcs \cup WatchPcs /\ ~mon[m].stopped

\* C2: a start request that arrives while a monitor is active, also one still in
\* its setup, launches no second monitor: at most one monitor is ever active.
C2_AtMostOneMonitor == Cardinality({m \in Mons : MonActive(m)}) <= 1

\* C8: each session directory is bound to at most one open browser session.
C8_OneSessionPerDirectory ==
    /\ Cardinality({b \in Batches : bat[b].ctx = "open"}) <= 1
    /\ Cardinality({m \in Mons : mon[m].ctx \in {"open", "closing"}}) <= 1

\* C10: when the setup of a monitor run fails after the launch, the launched
\* session is closed before the error is surfaced, and no handle is registered.
C10_SetupFailureClosesSession ==
    \A m \in Mons : mon[m].pc = "failed" => (mon[m].ctx # "open" /\ monitorHandle # m)

\* stop() ran inside the onEvent that reported a recipient: the only way it can run
\* after the report and before the trailing sleep, as no await lies between them
StoppedAtReport(m) ==
    /\ mon[m].pc \in CsvPcs /\ ~mon[m].stopped /\ mon'[m].stopped
    /\ Len(mon'[m].ev) = Len(mon[m].ev) + 1

\* C3: CSV mode, stop() invoked after recipient k was reported and before the
\* trailing sleep: the sleep is skipped and the loop has ended with stats.running
\* false; an ended loop navigates no more and emits no more events.
C3_StopBeforeTrailingSleep ==
    [][\A m \in Mons :
        /\ StoppedAtReport(m) =>
               /\ mon'[m].pc = "ended" /\ ~mon'[m].running
               /\ mon'[m].ev[Len(mon'[m].ev)].index = mon[m].i
               /\ ~mon'[m].ev[Len(mon'[m].ev)].done
        /\ (mon[m].pc = "ended" /\ mon[m].stopped) =>
               /\ mon'[m].pc = "ended" /\ mon'[m].ev = mon[m].ev
               /\ ~mon'[m].running /\ mon'[m].i = mon[m].i]_vars

\* stop() was called by the onEvent of recipient 0 of two: the loop has ended with
\* one event, and the close that stop() started has no handler waiting for it
C3_Witness ==
    \E m \in Mons :
        /\ mon[m].n = 2 /\ mon[m].pc = "ended" /\ mon[m].stopped /\ ~mon[m].running
        /\ Len(mon[m].ev) = 1 /\ mon[m].ctx = "closing" /\ m \notin stopping

\* C5: watch mode records two clicks only more than 1.5s apart, and within 1.5s of
\* a recorded click no pass of trySendClick is even attempted.
C5_Debounce ==
    [][\A m \in Mons :
        /\ (mon[m].clicks >= 1 /\ mon[m].pc = "wclick"
              /\ mon'[m].clicks = mon[m].clicks + 1) =>
               mon'[m].lastClick - mon[m].lastClick > DEBOUNCE_MS
        /\ (mon[m].clicks >= 1 /\ mon[m].pc # "wclick" /\ mon'[m].pc = "wclick") =>
               now - mon[m].lastClick > DEBOUNCE_MS]_vars

\* a watch loop that recorded two clicks
C5_Witness == \E m \in Mons : mon[m].n = 0 /\ mon[m].clicks = 2

\* C6: getScreenshot never raises; it returns null at once when no page was ever
\* opened or the last page is closed, null when the screenshot call fails, and
\* image bytes only while the last monitor page is not closed.
C6_ScreenshotUnavailable ==
    [][/\ shot'.res # "raised"
       /\ (shot.pc = "idle" /\ shot' # shot /\ NoPage(lastPage)) =>
              (shot'.pc = "idle" /\ shot'.res = "null")
       /\ (shot.pc = "shooting" /\ shot'.res = "bytes") =>
              (lastPage # 0 /\ mon[lastPage].ctx # "closed")]_vars

\* a call answered null at once because the last monitor page had been closed
C6_Witness ==
    /\ shot.pc = "idle" /\ shot.res = "null" /\ shot.page = 0
    /\ lastPage # 0 /\ mon[lastPage].ctx = "closed"

Terminal(r) == {k \in 1..Len(r.ev) : r.ev[k].done}

\* the state of a CSV run that completed by itself
C9_Completed(m) ==
    LET r == mon[m] IN
    /\ Cardinality(Terminal(r)) <= 1
    /\ (r.n > 0 /\ r.pc \in {"closing", "ended"} /\ ~r.stopped) =>
           /\ ~r.running /\ r.current = [tag |-> "done", k |-> 0]
           /\ Len(r.ev) = r.n + 1 /\ Terminal(r) = {r.n + 1}
           /\ r.ev[r.n + 1].clicks = r.clicks
           /\ r.ctx = (IF r.pc = "ended" THEN "closed" ELSE "closing")

\* C9: a CSV loop that exhausts its recipients with stop() never invoked sets
\* stats.running false and stats.current to the completion marker, emits exactly
\* one terminal event, with the final click count, after all per-recipient
\* events, and closes the session; a loop whose stop() was invoked before its
\* final check emits no terminal event.
C9_NaturalCompletion ==
    [][\A m \in Mons :
        /\ C9_Completed(m)'
        /\ (mon[m].pc \in CsvPcs /\ (mon[m].stopped \/ mon'[m].stopped)) =>
               Terminal(mon'[m]) = {}]_vars

\* a two-recipient run completed by itself and its session is closed
C9_Witness ==
    \E m \in Mons :
        /\ mon[m].n = 2 /\ mon[m].pc = "ended" /\ ~mon[m].stopped
        /\ mon[m].ctx = "closed" /\ Len(mon[m].ev) = 3

\* ---- C11 -------------------------------------------------------------------
\* the events of a CSV run so far are those of recipients 0, 1, 2, ... in order,
\* and without a stop request the loop is at recipient i with exactly the events
\* of the recipients before i behind it, and ends with one event for each
C11_InOrder ==
    \A m \in Mons :
        LET r == mon[m] IN
        r.n > 0 =>
            /\ \A j \in 1..Len(r.ev) : ~r.ev[j].done => r.ev[j].index = j - 1
            /\ ~r.stopped /\ r.pc \in CsvPcs \ {"delay"} => Len(r.ev) = r.i
            /\ ~r.stopped /\ r.pc = "delay" => Len(r.ev) = r.i + 1
            /\ ~r.stopped /\ r.pc \in {"closing", "ended"} =>
                   /\ Len(r.ev) = r.n + 1
                   /\ \A j \in 1..r.n : ~r.ev[j].done

\* a failed navigation or composer wait is reported with ok = false for the
\* recipient in hand, and the next step of the loop is the next index
C11_FailureAdvances ==
    \A m \in Mons :
        LET r == mon[m]
            q == mon'[m]
        IN  /\ r.n > 0 /\ ~q.stopped /\ r.pc \in {"goto", "wait"}
                   /\ q.pc \notin {r.pc, "wait", "settle"}
               => /\ q.ev = Append(r.ev, [done |-> FALSE, index |-> r.i, ok |-> FALSE,
                                          clicks |-> r.clicks, error |-> r.pc])
                  /\ q.pc = "delay" /\ q.i = r.i
            /\ r.n > 0 /\ ~q.stopped /\ r.pc = "delay" /\ q.pc # "delay"
               => q.i = r.i + 1 /\ q.ev \in {r.ev, Append(r.ev, q.ev[Len(q.ev)])}
                  /\ (q.pc = "goto" <=> q.i < q.n)

\* C11: in CSV sub-mode with no stop request every input recipient gets exactly
\* one event, in increasing index order with none skipped; the navigation for
\* the next recipient starts only after the event of the one before; a failed
\* navigation or composer wait yields an ok=false event and the loop advances.
C11_EveryRecipientReported == []C11_InOrder /\ [][C11_FailureAdvances]_vars

\* a run of two recipients that ended by itself, the first one having failed at
\* the composer wait
C11_Witness ==
    /\ mon[1].n = 2 /\ ~mon[1].stopped /\ mon[1].pc = "ended"
    /\ ~mon[1].ev[1].ok /\ mon[1].ev[1].error = "wait"
    /\ mon[1].ev[2].index = 1 /\ mon[1].ev[3].done

\* ---- C12 -------------------------------------------------------------------
C12_Step ==
    \A m \in Mons :
        LET r == mon[m]
            q == mon'[m]
        IN  r.n = 0 /\ r.pc \in WatchPcs =>
                /\ q.pc \notin WatchPcs => r.stopped /\ q.pc = "ended"
                /\ ~q.stopped => q.pc \in WatchPcs /\ q.running
                /\ r.running /\ ~q.running => ~r.stopped /\ q.stopped

\* a watch loop always has its next step to take: the pass in flight settles,
\* and a sleep that is over leads to the next tick
C12_Ticking ==
    \A m \in Mons :
        /\ mon[m].pc = "wclick" => ENABLED MonWatchClick(m)
        /\ mon[m].pc = "wsleep" /\ now >= mon[m].wake => ENABLED MonWatchSleep(m)

\* C12: the watch loop leaves its cycle of passes and sleeps only for a stop()
\* invoked before; whatever a pass does (an error included) the loop goes on to
\* its sleep and its next tick while stop() was not called, and stats.running
\* turns false only in the step that invokes stop().
C12_WatchExitsOnlyOnStop == []C12_Ticking /\ [][C12_Step]_vars

\* a pass threw, the error was dropped, and the loop sleeps towards its next tick
C12_Witness ==
    /\ mon[1].n = 0 /\ mon[1].pc = "wsleep" /\ mon[1].e = "evaluate"
    /\ ~mon[1].stopped /\ mon[1].running

\* ---- C13 -------------------------------------------------------------------
\* stop() never ends by raising, and stats.running is false once it was invoked
C13_StopSafe ==
    \A m \in Mons : mon[m].stop # "raised" /\ (mon[m].stopped => ~mon[m].running)

\* C13: wherever the loop is when stop() is invoked, stop() returns without
\* raising (also when context.close() rejects), stats.running is false from
\* then on for good, and the loop exits at a later checkpoint.
C13_StopAlwaysWorks ==
    /\ []C13_StopSafe
    /\ [][\A m \in Mons : mon[m].stopped => mon'[m].stopped]_vars
    /\ \A m \in Mons : mon[m].stopped ~> (mon[m].pc = "ended" /\ mon[m].stop = "returned")

\* a CSV run of two recipients stopped while it worked on the first: the close
\* rejected, stop() returned and the loop has exited without a second event
C13_Witness ==
    /\ mon[1].n = 2 /\ mon[1].stopped /\ Len(mon[1].ev) = 1
    /\ mon[1].closeErr /\ mon[1].stop = "returned"
    /\ mon[1].pc = "ended" /\ ~mon[1].running

\* ---- C14 -------------------------------------------------------------------
\* the step in which startMonitor returns (the handler stores the handle)
C14_Returns(m) == monitorHandle # m /\ monitorHandle' = m

\* C14: when startMonitor returns its handle the loop it started has not
\* finished: it stands at its first await, no recipient reported (CSV mode),
\* the watch loop in its cycle, stats.running still true.
C14_ReturnsBeforeLoopEnds ==
    [][\A m \in Mons :
          C14_Returns(m) =>
              /\ mon[m].pc = "reval"
              /\ mon'[m].running /\ mon'[m].ev = <<>>
              /\ mon'[m].n > 0 => mon'[m].pc = "goto" /\ mon'[m].i = 0
              /\ mon'[m].n = 0 => mon'[m].pc \in WatchPcs]_vars

\* the handle is with the server while the watch loop goes on clicking
C14_Witness ==
    /\ monitorHandle = 1 /\ mon[1].n = 0 /\ mon[1].pc \in WatchPcs
    /\ ~mon[1].stopped /\ mon[1].clicks > 0

\* ---- C15 -------------------------------------------------------------------
\* C15: on a page where no direct send selector finds a visible element and some
\* span[data-icon="send"] has a visible enclosing button, trySendClick returns
\* true with exactly one element clicked.
C15_IconFallbackClicks ==
    /\ probe.pc = "returned" /\ ~probe.dom.busy
    /\ probe.dom.direct # "visible" /\ IconButton(probe.dom.spans)
    => probe.res = [threw |-> FALSE, ret |-> TRUE, clicks |-> 1]

\* the second span is the one with a visible button, nothing else on the page
\* would have been clicked
C15_Witness ==
    /\ probe.pc = "returned" /\ probe.res.ret
    /\ probe.dom = [direct |-> "hidden", spans |-> <<"hidden", "visible">>,
                     label |-> FALSE, pw |-> "none", busy |-> FALSE]

\* ---- C16 -------------------------------------------------------------------
\* sendSingle: a pass in flight is at most the fifth and follows no click and no
\* Enter; Enter follows five passes without a click; a recipient reported ok
\* had one click or one Enter
C16_Single(r) ==
    /\ r.attempt <= ATTEMPTS /\ r.clicks + r.enters <= 1
    /\ r.pc = "click" => r.attempt < ATTEMPTS /\ r.clicks = 0 /\ r.enters = 0
    /\ r.enters = 1 => r.attempt = ATTEMPTS
    /\ r.pc = "delay" /\ r.prog[Len(r.prog)].ok => r.clicks + r.enters = 1

\* the same for the iteration of the CSV loop
C16_CsvIteration(r) ==
    r.n > 0 =>
    /\ r.attempt <= ATTEMPTS /\ r.enters <= 1 /\ (r.sent => r.enters = 0)
    /\ r.pc = "click" => r.attempt < ATTEMPTS /\ ~r.sent /\ r.enters = 0
    /\ r.enters = 1 => r.attempt = ATTEMPTS
    /\ \A j \in 1..Len(r.ev) :
          ~r.ev[j].done /\ r.ev[j].index = r.i /\ r.ev[j].ok => r.sent \/ r.enters = 1

\* C16: for one recipient at most 5 passes of the click ladder are made, none
\* after a pass that reported success, Enter is pressed only after 5 passes
\* without success, and a recipient that completed normally had exactly one
\* trigger: one successful click or one Enter.
C16_OneTriggerPerRecipient ==
    /\ \A b \in Batches : C16_Single(bat[b])
    /\ \A m \in Mons : C16_CsvIteration(mon[m])

\* a batch recipient sent by Enter after five passes, a CSV recipient sent by
\* the third pass
C16_Witness ==
    /\ bat[1].pc = "delay" /\ bat[1].enters = 1 /\ bat[1].attempt = ATTEMPTS
    /\ bat[1].prog[Len(bat[1].prog)].ok
    /\ mon[1].pc = "delay" /\ mon[1].sent /\ mon[1].attempt = 3

\* ---- C17 -------------------------------------------------------------------
\* sendBatch: the composer wait of recipient i ended without the composer
C17_BatchStep(r, q) ==
    /\ r.pc = "wait" /\ q.pc \notin {"wait", "settle"}
       => /\ q.prog = Append(r.prog, [index |-> r.i, ok |-> FALSE, error |-> "wait"])
          /\ q.failed = r.failed + 1 /\ q.ok = r.ok
          /\ q.attempt = 0 /\ q.clicks = 0 /\ q.enters = 0
          /\ q.pc = "delay" /\ q.i = r.i
    /\ r.pc = "delay" /\ q.pc # "delay"
       => q.i = r.i + 1 /\ (q.i < q.n => q.pc = "goto")

\* the CSV loop: the same, and stats.clicks stays as it was
C17_CsvStep(r, q) ==
    /\ r.n > 0 /\ ~q.stopped /\ r.pc = "wait" /\ q.pc \notin {"wait", "settle"}
       => /\ q.ev = Append(r.ev, [done |-> FALSE, index |-> r.i, ok |-> FALSE,
                                  clicks |-> r.clicks, error |-> "wait"])
          /\ q.clicks = r.clicks /\ q.lastClick = r.lastClick
          /\ q.attempt = 0 /\ ~q.sent /\ q.enters = 0
          /\ q.pc = "delay" /\ q.i = r.i
    /\ r.n > 0 /\ ~q.stopped /\ r.pc = "delay" /\ q.pc # "delay"
       => q.i = r.i + 1 /\ (q.i < q.n => q.pc = "goto")

\* C17: a recipient whose composer does not appear within the bounded wait is a
\* failure: no pass of the click ladder and no Enter is made for it, it is
\* reported with ok=false and the error, stats.clicks is not incremented for it
\* in CSV mode, and the loop goes on with the next recipient.
C17_ComposerTimeoutIsFailure ==
    [][/\ \A b \in Batches : C17_BatchStep(bat[b], bat'[b])
       /\ \A m \in Mons : C17_CsvStep(mon[m], mon'[m])]_vars

\* in both loops the first recipient failed at the composer wait and the second
\* one is being navigated to
C17_Witness ==
    /\ bat[1].pc = "goto" /\ bat[1].i = 1
    /\ bat[1].prog = <<[index |-> 0, ok |-> FALSE, error |-> "wait"]>>
    /\ mon[1].pc = "goto" /\ mon[1].i = 1 /\ mon[1].clicks = 0
    /\ Len(mon[1].ev) = 1 /\ mon[1].ev[1].error = "wait"

\* ---- C18 -------------------------------------------------------------------
C18_State(r) ==
    /\ r.done = r.ok + r.failed /\ r.done <= r.n
    /\ r.status = "finished" => r.done = r.n
    /\ r.nevents <= EVENTS_CAP

\* C18: in every state of a job done = ok + failed and done <= total, the
\* status leaves 'running' at most once, it is 'finished' only when done =
\* total, and the retained history never holds more than 200 events.
C18_JobInvariants ==
    /\ [](\A b \in Batches : C18_State(bat[b]))
    /\ [][\A b \in Batches :
            bat[b].status \in {"finished", "error"} => bat'[b].status = bat[b].status]_vars

\* ---- C19 -------------------------------------------------------------------
\* the loop of monitor m is at work: started, its session open, not stopped
C19_LoopActive(m) ==
    mon[m].pc \in CsvPcs \cup WatchPcs /\ mon[m].ctx = "open" /\ ~mon[m].stopped

\* C19: under any interleaving of start and stop requests, a monitor whose loop
\* is active is the one monitorHandle refers to, so that a stop request reaches
\* it and the status endpoint reports it.
C19_ActiveMonitorHasHandle ==
    \A m \in Mons : C19_LoopActive(m) => monitorHandle = m

\* ---- C20 -------------------------------------------------------------------
\* the step emits an event with clicked = true
C20_ClickEvent(r, q) == Len(q.ev) > Len(r.ev) /\ q.ev[Len(q.ev)].ok /\ ~q.ev[Len(q.ev)].done

\* C20 as claimed: once stop() was invoked, stats.clicks, stats.lastClick and
\* stats.current never change again and no event with clicked=true is emitted.
C20_FrozenAfterStop ==
    [][\A m \in Mons :
          mon[m].stopped =>
              /\ mon'[m].clicks = mon[m].clicks /\ mon'[m].lastClick = mon[m].lastClick
              /\ mon'[m].current = mon[m].current
              /\ ~C20_ClickEvent(mon[m], mon'[m])]_vars

C20_State ==
    \A m \in Mons : mon[m].stopped => mon[m].clicks <= mon[m].atStop + 1

C20_Step ==
    \A m \in Mons :
        LET r == mon[m]
            q == mon'[m]
        IN  r.stopped =>
              /\ q.current = r.current
              /\ q.clicks # r.clicks \/ q.lastClick # r.lastClick \/ C20_ClickEvent(r, q)
                 => /\ r.clicks = r.atStop /\ q.clicks = r.clicks + 1
                    /\ C20_ClickEvent(r, q) /\ Len(q.ev) = Len(r.ev) + 1
                    /\ r.pc \in {"click", "press", "wclick"}
                    /\ q.pc \in {"ended", "wsleep"}
              /\ r.pc = "ended" => q.clicks = r.clicks /\ q.lastClick = r.lastClick
                                     /\ q.ev = r.ev

\* C20 amended: once stop() was invoked, stats.current never changes again;
\* stats.clicks and stats.lastClick change at most once more, with one event
\* with clicked=true, for the recipient or the pass that was in hand, and the
\* loop then goes to its exit; after the exit nothing changes.
C20_AtMostOneClickAfterStop == []C20_State /\ [][C20_Step]_vars

\* a loop that has exited with one click counted after stop() was invoked
C20_Witness ==
    mon[1].stopped /\ mon[1].pc = "ended" /\ mon[1].clicks = mon[1].atStop + 1
====
